---- MODULE Spec2Model ----
(***************************************************************************)
(* The session/connection hub of EnterpriseChatX: the WebSocket hub and    *)
(* the chat HTTP routes of registerRoutes (server/routes.ts, here          *)
(* src/unnamed/part_000) over the in-memory store MemStorage (the          *)
(* TypeScript half of src/replit.md).                                      *)
(*                                                                         *)
(* Every `await storage.x(...)` is a suspension point: a handler is a      *)
(* process whose position (pc) and locals live in the bag `handlers`, and  *)
(* one action is the code that runs between two awaits.  MemStorage's      *)
(* methods have no await inside, so the effect of a Store call happens at  *)
(* the call, in the segment that makes it.  MemStorage hands out its own   *)
(* objects: a session a handler holds is a snapshot of the scalar fields   *)
(* (updateChatSession replaces the object), while its transferHistory is   *)
(* the one array the Store holds too.                                      *)
(***************************************************************************)
EXTENDS Integers, Sequences, FiniteSets, Bags, TLC

(***************************************************************************)
(* Bounds of the model.                                                    *)
(***************************************************************************)
MaxConns == 3
MaxWriters == 1
MaxChats == 1
MaxOps == 3
MaxInFlight == 2
MaxFaultyOps == 2
MaxTime == 2
MaxPeers == 2

(***************************************************************************)
(* Seed data and value spaces.                                             *)
(***************************************************************************)
\* seedData: the users, in the insertion order of the users Map; a user's id
\* (a UUID in the code) is written as the username.
Users == <<"admin", "teamlead1", "senior1", "agent1", "agent2">>

UserIds == {Users[i] : i \in 1..Len(Users)}

UserRole == [u \in UserIds |->
    CASE u = "admin" -> "admin"
      [] u = "teamlead1" -> "team_lead"
      [] u = "senior1" -> "senior_agent"
      [] OTHER -> "agent"]

UserName == [u \in UserIds |->
    CASE u = "admin" -> "Sarah Chen"
      [] u = "teamlead1" -> "Jennifer Park"
      [] u = "senior1" -> "David Kim"
      [] u = "agent1" -> "Mike Thompson"
      [] OTHER -> "Anna Martinez"]

\* role.replace('_', ' ') of the system message of a transfer
RoleText(role) ==
    CASE role = "team_lead" -> "team lead"
      [] role = "senior_agent" -> "senior agent"
      [] OTHER -> role

\* randomUUID(): the n-th id of a kind
UUID(kind, n) == <<"uuid", kind, n>>

\* `CHT-${Date.now()}-${randomUUID().slice(0, 8)}`: the time and the random
\* suffix together are one draw from a small set, so two calls may draw alike
SessionCodes == {<<"CHT", "a">>, <<"CHT", "b">>}

\* a frame or request field that is absent
Undefined == <<"undefined">>

NoTime == -1

NoAgent == "null"

SeedCustomers == <<
    [id |-> UUID("customer", 1), name |-> "Emma Wilson",
     email |-> "emma.wilson@email.com", totalOrders |-> 24, status |-> "premium"],
    [id |-> UUID("customer", 2), name |-> "Alex Kumar",
     email |-> "alex.kumar@email.com", totalOrders |-> 12, status |-> "regular"] >>

\* inputs of the requests and frames
Emails == {"emma.wilson@email.com", "jane@x.com"}

CustomerNameOf(email) == IF email = "jane@x.com" THEN "Jane Doe" ELSE "Emma Wilson"

NewAgentIds == {"agent2", "nobody"}

FrameSessionIds == SessionCodes \cup {Undefined}

FrameIdentities == {[userId |-> "visitor", userType |-> "customer"],
                    [userId |-> "agent1", userType |-> "agent"]}

\* who sits at a connection: the customer's widget on the odd ones, an
\* agent's dashboard on the even ones
ParticipantAt(c) ==
    IF c % 2 = 1 THEN [userId |-> "visitor", userType |-> "customer"]
    ELSE [userId |-> "agent1", userType |-> "agent"]

NoData == [absent |-> TRUE]

ChatData == {NoData, [content |-> <<"Hello">>, senderName |-> "Jane"],
             [content |-> <<>>, senderName |-> "Jane"]}

VARIABLES
    isOnline,          \* MemStorage.users: the isOnline flag of each user
    customers,         \* MemStorage.customers, in insertion order
    chatSessions,      \* MemStorage.chatSessions, in insertion order
    messages,          \* MemStorage.messages, in insertion order
    connectedClients,  \* the connectedClients Map: clientId -> ConnectedClient
    readyState,        \* ws.readyState of each connection
    handlers,          \* the async handlers in flight, each at an await
    lastSent,          \* the last broadcastToSession call and who was sent it
    lastResponse,      \* the last HTTP response written
    now,               \* Date.now(), the wall clock
    budget,            \* how many more frames and requests that call the Store will come in
    storeMayFail,      \* whether the Store behind IStorage can reject a call
    lastError,         \* the last console.error of the socket handler's catch
    leftSent,          \* the connections whose client has sent leave_session since its join
    mounted,           \* the component using useChat: "no", "yes", or "gone" (unmounted)
    chatSessionId,     \* useChat's sessionId argument, Undefined while it is empty
    socket,            \* readyState of the WebSocket useWebSocket created last, "NONE" when its close event is through
    closeCode,         \* the code its close event carries once it is CLOSING
    socketRef,         \* socketRef.current is that WebSocket (TRUE) or null (FALSE)
    reconnectTimeoutRef, \* a reconnect timer is pending
    reconnectAttempts, \* reconnectAttempts.current
    isConnected,       \* the isConnected state of useWebSocket
    effectDue,         \* the join effect of useChat is to run: one of its dependencies changed
    peer,              \* the server's clientId for the hook's socket that opened last, 0 if none did
    joinSent           \* the clientId of the socket a join_session frame was last sent on, 0 if none

clientVars == <<mounted, chatSessionId, socket, closeCode, socketRef,
                reconnectTimeoutRef, reconnectAttempts, isConnected, effectDue,
                peer, joinSent>>

vars == <<isOnline, customers, chatSessions, messages, connectedClients,
          readyState, handlers, lastSent, lastResponse, now, budget, storeMayFail,
          lastError, leftSent, clientVars>>

storeVars == <<isOnline, customers, chatSessions, messages>>

hubVars == <<connectedClients, readyState, lastSent>>

(***************************************************************************)
(* MemStorage                                                              *)
(***************************************************************************)
Indexes(seq) == 1..Len(seq)

\* Array.prototype.find over a Map's values: the first index that matches, 0 if none
FirstOf(S) == IF S = {} THEN 0 ELSE CHOOSE i \in S : \A j \in S : i <= j

\* a lookup that finds a user under every id
getAnyUser(id) == TRUE

getUser(id) == id \in UserIds

getAgentsByRole(role) == SelectSeq(Users, LAMBDA u : UserRole[u] = role)

getCustomerByEmail(email) ==
    FirstOf({i \in Indexes(customers) : customers[i].email = email})

createCustomer(name, email) ==
    [id |-> UUID("customer", Len(customers) + 1), name |-> name, email |-> email,
     totalOrders |-> 0, status |-> "regular"]

getChatSessionBySessionId(sessionId) ==
    FirstOf({i \in Indexes(chatSessions) : chatSessions[i].sessionId = sessionId})

createChatSession(sessionId, customerId, agentId) ==
    [id |-> UUID("session", Len(chatSessions) + 1), sessionId |-> sessionId,
     customerId |-> customerId, agentId |-> agentId, status |-> "active",
     endTime |-> NoTime, transferHistory |-> <<>>]

createMessage(sessionId, senderId, senderType, content, messageType) ==
    [id |-> UUID("message", Len(messages) + 1), sessionId |-> sessionId,
     senderId |-> senderId, senderType |-> senderType, content |-> content,
     messageType |-> messageType, timestamp |-> now]

\* Array.prototype.sort with (a, b) => a.timestamp - b.timestamp: a stable sort,
\* done here by insertion
RECURSIVE SortByTimestamp(_)
SortByTimestamp(seq) ==
    IF seq = <<>> THEN <<>>
    ELSE LET m == seq[Len(seq)]
             rest == SortByTimestamp(SubSeq(seq, 1, Len(seq) - 1))
             keep == {i \in Indexes(rest) : rest[i].timestamp <= m.timestamp}
             k == IF keep = {} THEN 0 ELSE CHOOSE i \in keep : \A j \in keep : j <= i
         IN SubSeq(rest, 1, k) \o <<m>> \o SubSeq(rest, k + 1, Len(rest))

\* the messages of a session, were they returned in the Map's order
getMessagesUnsorted(sessionId) ==
    SelectSeq(messages, LAMBDA m : m.sessionId = sessionId)

getMessagesBySession(sessionId) ==
    SortByTimestamp(SelectSeq(messages, LAMBDA m : m.sessionId = sessionId))

updateChatSession(sessions, i, updates) ==
    [sessions EXCEPT ![i] =
        [f \in DOMAIN sessions[i] |->
            IF f \in DOMAIN updates THEN updates[f] ELSE sessions[i][f]]]

\* the outcomes a Store call can have: MemStorage always fulfils; a Store that
\* can reject either fulfils (TRUE) or rejects without writing (FALSE)
Outcomes == IF storeMayFail THEN BOOLEAN ELSE {TRUE}

(***************************************************************************)
(* The hub: connections and broadcast                                      *)
(***************************************************************************)
NoClient == 0

\* no close event is due
NoCode == 0

NoSend == [sessionId |-> Undefined, message |-> [type |-> "none"], to |-> {}]

NoResponse == [op |-> "none", status |-> 0, session |-> 0]

\* the broadcast, were excludeClientId not looked at
broadcastToAll(clients, sessionId, message, excludeClientId) ==
    [sessionId |-> sessionId, message |-> message,
     to |-> {c \in DOMAIN clients :
                clients[c].sessionId = sessionId /\ readyState[c] = "OPEN"}]

\* broadcastToSession: the call and the connections ws.send was called on
broadcastToSession(clients, sessionId, message, excludeClientId) ==
    [sessionId |-> sessionId, message |-> message,
     to |-> {c \in DOMAIN clients :
                /\ clients[c].sessionId = sessionId
                /\ c # excludeClientId
                /\ readyState[c] = "OPEN"}]

\* an async handler in flight: the frame or request it serves, its locals
\* (session: the index of the session it read, agentId: that session's agentId
\* as read, ref: the message or customer it holds) and how its pending Store
\* call settles
Handler(op, pc, client, sessionId, identity, data, session, agentId, ref, failed) ==
    [op |-> op, pc |-> pc, client |-> client, sessionId |-> sessionId,
     userId |-> identity.userId, userType |-> identity.userType, data |-> data,
     session |-> session, agentId |-> agentId, ref |-> ref, failed |-> failed]

\* an HTTP request names no participant
NoIdentity == [userId |-> "undefined", userType |-> "undefined"]

\* the code after the await, were only chat_message to wait for the Store's answer
ConfirmedOrNotAwaited(h) == ~h.failed \/ h.op # "chat_message"

\* the awaited Store call fulfilled, so the code after the await runs
Confirmed(h) == ~h.failed

NoError == [op |-> "none"]

\* catch (error) { console.error('WebSocket message error:', error) }
ConsoleError(h) == [op |-> h.op]

InFlight == BagToSet(handlers)

Spawn(h) == handlers (+) SetToBag({h})

Retire(h) == handlers (-) SetToBag({h})

Move(h, g) == (handlers (-) SetToBag({h})) (+) SetToBag({g})

CanSpawn == BagCardinality(handlers) < MaxInFlight

\* one more frame or request that calls the Store comes in
Arrives == budget > 0 /\ budget' = budget - 1

IsOpen(c) == c \in DOMAIN connectedClients /\ readyState[c] = "OPEN"

\* a 'message' event is emitted on an open connection that is in the Map
Receives(c) == IsOpen(c)

\* wss.on('connection'): a new clientId, registered as an anonymous customer
WsConnection ==
    /\ \E c \in DOMAIN readyState :
        /\ readyState[c] = "CONNECTING"
        /\ \A d \in DOMAIN readyState : d < c => readyState[d] # "CONNECTING"
        /\ readyState' = [readyState EXCEPT ![c] = "OPEN"]
        /\ connectedClients' =
             [d \in DOMAIN connectedClients \cup {c} |->
                 IF d = c
                 THEN [userId |-> "undefined", userType |-> "customer",
                       sessionId |-> Undefined]
                 ELSE connectedClients[d]]
    /\ UNCHANGED <<storeVars, handlers, lastSent, lastResponse, now, budget, storeMayFail, lastError, leftSent, clientVars>>

\* the peer goes away: the socket leaves OPEN before 'close' is emitted
WsDrop(c) ==
    /\ IsOpen(c)
    /\ readyState' = [readyState EXCEPT ![c] = "CLOSING"]
    /\ UNCHANGED <<storeVars, connectedClients, handlers, lastSent, lastResponse,
                   now, budget, storeMayFail, lastError, leftSent, clientVars>>

LeftStatus(client) ==
    [type |-> "agent_status",
     data |-> [status |-> "left", userId |-> client.userId,
               userType |-> client.userType]]

\* the close, were the entry left in the Map
WsCloseKeepsEntry(c) ==
    /\ c \in DOMAIN connectedClients
    /\ readyState[c] = "CLOSING"
    /\ readyState' = [readyState EXCEPT ![c] = "CLOSED"]
    /\ lastSent' = IF connectedClients[c].sessionId # Undefined
                   THEN broadcastToSession(connectedClients,
                                           connectedClients[c].sessionId,
                                           LeftStatus(connectedClients[c]), NoClient)
                   ELSE lastSent
    /\ UNCHANGED <<storeVars, connectedClients, handlers, lastResponse, now, budget,
                   storeMayFail, lastError, leftSent, clientVars>>

\* the close, were it to take the connection's user offline
WsCloseGoesOffline(c) ==
    /\ c \in DOMAIN connectedClients
    /\ readyState[c] = "CLOSING"
    /\ readyState' = [readyState EXCEPT ![c] = "CLOSED"]
    /\ lastSent' = IF connectedClients[c].sessionId # Undefined
                   THEN broadcastToSession(connectedClients,
                                           connectedClients[c].sessionId,
                                           LeftStatus(connectedClients[c]), NoClient)
                   ELSE lastSent
    /\ connectedClients' =
         [d \in DOMAIN connectedClients \ {c} |-> connectedClients[d]]
    /\ leftSent' = leftSent \ {c}
    /\ UNCHANGED clientVars
    /\ isOnline' = [u \in UserIds |->
                      isOnline[u] /\ u # connectedClients[c].userId]
    /\ UNCHANGED <<customers, chatSessions, messages, handlers, lastResponse, now,
                   budget, storeMayFail, lastError>>

\* ws.on('close')
WsClose(c) ==
    /\ c \in DOMAIN connectedClients
    /\ readyState[c] = "CLOSING"
    /\ readyState' = [readyState EXCEPT ![c] = "CLOSED"]
    /\ lastSent' = IF connectedClients[c].sessionId # Undefined
                   THEN broadcastToSession(connectedClients,
                                           connectedClients[c].sessionId,
                                           LeftStatus(connectedClients[c]), NoClient)
                   ELSE lastSent
    /\ connectedClients' =
         [d \in DOMAIN connectedClients \ {c} |-> connectedClients[d]]
    /\ leftSent' = leftSent \ {c}
    /\ UNCHANGED clientVars
    /\ UNCHANGED <<storeVars, handlers, lastResponse, now, budget, storeMayFail, lastError>>

JoinedStatus(identity) ==
    [type |-> "agent_status",
     data |-> [status |-> "joined", userId |-> identity.userId,
               userType |-> identity.userType]]

\* the join, were it announced like a typing frame: to all but the joiner
WsJoinTellsOthers(c, sessionId, identity) ==
    /\ Receives(c)
    /\ connectedClients' =
         [connectedClients EXCEPT ![c] =
             [userId |-> identity.userId, userType |-> identity.userType,
              sessionId |-> sessionId]]
    /\ lastSent' = broadcastToSession(connectedClients', sessionId,
                                      JoinedStatus(identity), c)
    /\ leftSent' = leftSent \ {c}
    /\ UNCHANGED clientVars
    /\ UNCHANGED <<storeVars, readyState, handlers, lastResponse, now, budget,
                   storeMayFail, lastError>>

\* the join, were a connection's first binding to stay
WsJoinOnce(c, sessionId, identity) ==
    /\ Receives(c)
    /\ connectedClients' =
         IF connectedClients[c].sessionId = Undefined
         THEN [connectedClients EXCEPT ![c] =
                 [userId |-> identity.userId, userType |-> identity.userType,
                  sessionId |-> sessionId]]
         ELSE connectedClients
    /\ lastSent' = broadcastToSession(connectedClients', sessionId,
                                      JoinedStatus(identity), NoClient)
    /\ leftSent' = leftSent \ {c}
    /\ UNCHANGED clientVars
    /\ UNCHANGED <<storeVars, readyState, handlers, lastResponse, now, budget,
                   storeMayFail, lastError>>

\* ws.on('message') case 'join_session': bind, then broadcast to the session
WsJoinSession(c, sessionId, identity) ==
    /\ Receives(c)
    /\ connectedClients' =
         [connectedClients EXCEPT ![c] =
             [userId |-> identity.userId, userType |-> identity.userType,
              sessionId |-> sessionId]]
    /\ lastSent' = broadcastToSession(connectedClients', sessionId,
                                      JoinedStatus(identity), NoClient)
    /\ leftSent' = leftSent \ {c}
    /\ UNCHANGED clientVars
    /\ UNCHANGED <<storeVars, readyState, handlers, lastResponse, now, budget,
                   storeMayFail, lastError>>

\* ws.on('message') case 'agent_typing' / 'customer_typing': the frame is
\* forwarded as it came, to everyone on the session but the sender
TypingFrame(type, sessionId, identity) ==
    [type |-> type, sessionId |-> sessionId, userId |-> identity.userId,
     userType |-> identity.userType, data |-> [typing |-> TRUE]]

\* the typing frame, were it kept in the Store like a chat message
WsTypingStored(c, type, sessionId, identity) ==
    /\ Receives(c)
    /\ lastSent' = IF sessionId # Undefined
                   THEN broadcastToSession(connectedClients, sessionId,
                                           TypingFrame(type, sessionId, identity), c)
                   ELSE lastSent
    /\ messages' = IF sessionId # Undefined
                   THEN Append(messages,
                               createMessage(sessionId, identity.userId,
                                             identity.userType, <<>>, type))
                   ELSE messages
    /\ UNCHANGED <<isOnline, customers, chatSessions, connectedClients, readyState,
                   handlers, lastResponse, now, budget, storeMayFail, lastError,
                   leftSent, clientVars>>

WsTyping(c, type, sessionId, identity) ==
    /\ Receives(c)
    /\ lastSent' = IF sessionId # Undefined
                   THEN broadcastToSession(connectedClients, sessionId,
                                           TypingFrame(type, sessionId, identity), c)
                   ELSE lastSent
    /\ UNCHANGED <<storeVars, connectedClients, readyState, handlers, lastResponse,
                   now, budget, storeMayFail, lastError, leftSent, clientVars>>

\* ws.on('message') with a frame no case of the switch handles
\* ('agent_status'): nothing happens
WsUnhandledFrame(c) ==
    /\ Receives(c)
    /\ UNCHANGED vars

\* ws.on('message') with a 'leave_session' frame, which useChat.leaveSession
\* sends: the switch has no case for it either
WsLeaveSession(c) ==
    /\ Receives(c)
    /\ leftSent' = leftSent \cup {c}
    /\ UNCHANGED clientVars
    /\ UNCHANGED <<storeVars, hubVars, handlers, lastResponse, now, budget,
                   storeMayFail, lastError>>

\* ws.on('message') with data JSON.parse throws on: the catch logs it
WsUnparseableFrame(c) ==
    /\ IsOpen(c)
    /\ lastError' = ConsoleError([op |-> "parse"])
    /\ UNCHANGED <<storeVars, hubVars, handlers, lastResponse, now, budget,
                   storeMayFail, leftSent, clientVars>>

\* ws.on('message') case 'chat_message', up to `await storage.createMessage`
WsChatMessage(c, sessionId, identity, data) ==
    /\ Receives(c)
    /\ IF sessionId # Undefined /\ data # NoData
       THEN /\ CanSpawn
            /\ Arrives
            /\ \E ok \in Outcomes :
                /\ messages' =
                     IF ok
                     THEN Append(messages,
                                 createMessage(sessionId, identity.userId,
                                               identity.userType, data.content,
                                               "text"))
                     ELSE messages
                /\ handlers' =
                     Spawn(Handler("chat_message", "created", c, sessionId,
                                   identity, data, 0, NoAgent,
                                   IF ok THEN Len(messages) + 1 ELSE 0, ~ok))
       ELSE UNCHANGED <<messages, handlers, budget>>
    /\ UNCHANGED <<isOnline, customers, chatSessions, hubVars, lastResponse, now, storeMayFail, lastError, leftSent, clientVars>>

\* the chat broadcast, were it sent like a typing frame: to all but the sender
ChatBroadcastToOthers(h) ==
    broadcastToSession(connectedClients, h.sessionId,
        [type |-> "chat_message", sessionId |-> h.sessionId,
         data |-> [message |-> messages[h.ref], senderName |-> h.data.senderName]],
        h.client)

\* the frame broadcast for a stored chat message: {...newMessage, senderName}
ChatBroadcast(h) ==
    broadcastToSession(connectedClients, h.sessionId,
        [type |-> "chat_message", sessionId |-> h.sessionId,
         data |-> [message |-> messages[h.ref], senderName |-> h.data.senderName]],
        NoClient)

\* the chat broadcast, were the handlers to take turns: each waits until
\* no other handler has a Store call outstanding
WsChatMessageDoneInTurn(h) ==
    /\ h.op = "chat_message" /\ h.pc = "created"
    /\ BagCardinality(handlers) = 1
    /\ lastSent' = IF ~h.failed THEN ChatBroadcast(h) ELSE lastSent
    /\ lastError' = IF ~h.failed THEN lastError ELSE ConsoleError(h)
    /\ handlers' = Retire(h)
    /\ UNCHANGED <<storeVars, connectedClients, readyState, lastResponse, now,
                   budget, storeMayFail, leftSent, clientVars>>

\* case 'chat_message' after the await: broadcast, or the catch of a rejection
WsChatMessageDone(h) ==
    /\ h.op = "chat_message" /\ h.pc = "created"
    /\ lastSent' = IF Confirmed(h) THEN ChatBroadcast(h) ELSE lastSent
    /\ lastError' = IF Confirmed(h) THEN lastError ELSE ConsoleError(h)
    /\ handlers' = Retire(h)
    /\ UNCHANGED <<storeVars, connectedClients, readyState, lastResponse, now,
                   budget, storeMayFail, leftSent, clientVars>>

TransferData == {[newAgentId |-> a, reason |-> "needs billing expertise"] :
                    a \in NewAgentIds}

\* the record a transfer pushes: fromAgent is the agentId of the session object
\* the handler read
TransferRecord(fromAgent, data) ==
    [fromAgent |-> fromAgent, toAgent |-> data.newAgentId, reason |-> data.reason]

\* the transfer, were its history rebuilt from the new record alone
PushOverwrites(h, ok) ==
    IF ok
    THEN updateChatSession(chatSessions, h.session,
             [agentId |-> h.data.newAgentId,
              transferHistory |-> <<TransferRecord(h.agentId, h.data)>>])
    ELSE chatSessions

\* the transfer, were it to put the session back to active
PushReactivates(h, ok) ==
    LET pushed == [chatSessions EXCEPT ![h.session].transferHistory =
                      Append(@, TransferRecord(h.agentId, h.data))]
    IN IF ok
       THEN updateChatSession(pushed, h.session,
                [agentId |-> h.data.newAgentId, status |-> "active",
                 endTime |-> NoTime,
                 transferHistory |-> pushed[h.session].transferHistory])
       ELSE pushed

\* the transfer, were the update to write the history and leave the agent
PushKeepsAgent(h, ok) ==
    LET pushed == [chatSessions EXCEPT ![h.session].transferHistory =
                      Append(@, TransferRecord(h.agentId, h.data))]
    IN IF ok
       THEN updateChatSession(pushed, h.session,
                [transferHistory |-> pushed[h.session].transferHistory])
       ELSE pushed

\* the transfer, were its record to take the place of the last one
PushReplacesLast(h, ok) ==
    LET old == chatSessions[h.session].transferHistory
        record == TransferRecord(h.agentId, h.data)
        pushed == [chatSessions EXCEPT ![h.session].transferHistory =
                      IF old = <<>> THEN <<record>>
                      ELSE [old EXCEPT ![Len(old)] = record]]
    IN IF ok
       THEN updateChatSession(pushed, h.session,
                [agentId |-> h.data.newAgentId,
                 transferHistory |-> pushed[h.session].transferHistory])
       ELSE pushed

\* transferHistory.push(...) on the array of the stored session, then
\* storage.updateChatSession(session.id, {agentId, transferHistory}) if the
\* Store takes the write
PushAndUpdate(h, ok) ==
    LET pushed == [chatSessions EXCEPT ![h.session].transferHistory =
                      Append(@, TransferRecord(h.agentId, h.data))]
    IN IF ok
       THEN updateChatSession(pushed, h.session,
                [agentId |-> h.data.newAgentId,
                 transferHistory |-> pushed[h.session].transferHistory])
       ELSE pushed

\* the end of a session, were only its status written
EndUpdateStatusOnly(h, ok) ==
    IF ok
    THEN updateChatSession(chatSessions, h.session, [status |-> "resolved"])
    ELSE chatSessions

\* storage.updateChatSession(session.id, {status: 'resolved', endTime: new Date()})
EndUpdate(h, ok) ==
    IF ok
    THEN updateChatSession(chatSessions, h.session,
                           [status |-> "resolved", endTime |-> now])
    ELSE chatSessions

\* `await storage.getChatSessionBySessionId(...)`: the handler that waits for it
AwaitSession(op, c, sessionId, identity, data, ok) ==
    LET i == IF ok THEN getChatSessionBySessionId(sessionId) ELSE 0
    IN Handler(op, "gotSession", c, sessionId, identity, data, i,
               IF i = 0 THEN NoAgent ELSE chatSessions[i].agentId, 0, ~ok)

\* ws.on('message') case 'session_transfer', up to the first await
WsSessionTransfer(c, sessionId, identity, data) ==
    /\ Receives(c)
    /\ IF sessionId # Undefined /\ data # NoData
       THEN /\ CanSpawn
            /\ Arrives
            /\ \E ok \in Outcomes :
                 handlers' = Spawn(AwaitSession("session_transfer", c, sessionId,
                                                identity, data, ok))
       ELSE UNCHANGED <<handlers, budget>>
    /\ UNCHANGED <<storeVars, hubVars, lastResponse, now, storeMayFail, lastError, leftSent, clientVars>>

\* case 'session_transfer' between the two awaits
WsSessionTransferUpdate(h) ==
    /\ h.op = "session_transfer" /\ h.pc = "gotSession"
    /\ IF h.failed \/ h.session = 0
       THEN /\ handlers' = Retire(h)
            /\ lastError' = IF Confirmed(h) THEN lastError ELSE ConsoleError(h)
            /\ UNCHANGED chatSessions
       ELSE /\ \E ok \in Outcomes :
                /\ chatSessions' = PushAndUpdate(h, ok)
                /\ handlers' = Move(h, [h EXCEPT !.pc = "updated", !.failed = ~ok])
            /\ UNCHANGED lastError
    /\ UNCHANGED <<isOnline, customers, messages, hubVars, lastResponse, now,
                   budget, storeMayFail, leftSent, clientVars>>

TransferBroadcast(h) ==
    broadcastToSession(connectedClients, h.sessionId,
        [type |-> "session_transfer", sessionId |-> h.sessionId, data |-> h.data],
        NoClient)

\* case 'session_transfer' after the update: broadcast, or the catch
WsSessionTransferDone(h) ==
    /\ h.op = "session_transfer" /\ h.pc = "updated"
    /\ lastSent' = IF Confirmed(h) THEN TransferBroadcast(h) ELSE lastSent
    /\ lastError' = IF Confirmed(h) THEN lastError ELSE ConsoleError(h)
    /\ handlers' = Retire(h)
    /\ UNCHANGED <<storeVars, connectedClients, readyState, lastResponse, now,
                   budget, storeMayFail, leftSent, clientVars>>

\* ws.on('message') case 'session_ended', up to the first await
WsSessionEnded(c, sessionId, identity) ==
    /\ Receives(c)
    /\ IF sessionId # Undefined
       THEN /\ CanSpawn
            /\ Arrives
            /\ \E ok \in Outcomes :
                 handlers' = Spawn(AwaitSession("session_ended", c, sessionId,
                                                identity, NoData, ok))
       ELSE UNCHANGED <<handlers, budget>>
    /\ UNCHANGED <<storeVars, hubVars, lastResponse, now, storeMayFail, lastError, leftSent, clientVars>>

\* case 'session_ended' between the two awaits
\* the end of a session, were the frame forwarded though no session is stored
WsSessionEndedEchoed(h) ==
    /\ h.op = "session_ended" /\ h.pc = "gotSession"
    /\ IF h.failed \/ h.session = 0
       THEN /\ handlers' = Retire(h)
            /\ lastError' = IF ~h.failed THEN lastError ELSE ConsoleError(h)
            /\ lastSent' = IF ~h.failed
                           THEN broadcastToSession(connectedClients, h.sessionId,
                                    [type |-> "session_ended",
                                     sessionId |-> h.sessionId], NoClient)
                           ELSE lastSent
            /\ UNCHANGED chatSessions
       ELSE /\ \E ok \in Outcomes :
                /\ chatSessions' = EndUpdate(h, ok)
                /\ handlers' = Move(h, [h EXCEPT !.pc = "updated", !.failed = ~ok])
            /\ UNCHANGED <<lastError, lastSent>>
    /\ UNCHANGED <<isOnline, customers, messages, connectedClients, readyState,
                   lastResponse, now, budget, storeMayFail, leftSent, clientVars>>

WsSessionEndedUpdate(h) ==
    /\ h.op = "session_ended" /\ h.pc = "gotSession"
    /\ IF h.failed \/ h.session = 0
       THEN /\ handlers' = Retire(h)
            /\ lastError' = IF Confirmed(h) THEN lastError ELSE ConsoleError(h)
            /\ UNCHANGED chatSessions
       ELSE /\ \E ok \in Outcomes :
                /\ chatSessions' = EndUpdate(h, ok)
                /\ handlers' = Move(h, [h EXCEPT !.pc = "updated", !.failed = ~ok])
            /\ UNCHANGED lastError
    /\ UNCHANGED <<isOnline, customers, messages, hubVars, lastResponse, now,
                   budget, storeMayFail, leftSent, clientVars>>

EndedBroadcast(h) ==
    broadcastToSession(connectedClients, h.sessionId,
        [type |-> "session_ended", sessionId |-> h.sessionId,
         data |-> [endedBy |-> h.userId]],
        NoClient)

\* case 'session_ended' after the update: broadcast, or the catch
WsSessionEndedDone(h) ==
    /\ h.op = "session_ended" /\ h.pc = "updated"
    /\ lastSent' = IF Confirmed(h) THEN EndedBroadcast(h) ELSE lastSent
    /\ lastError' = IF Confirmed(h) THEN lastError ELSE ConsoleError(h)
    /\ handlers' = Retire(h)
    /\ UNCHANGED <<storeVars, connectedClients, readyState, lastResponse, now,
                   budget, storeMayFail, leftSent, clientVars>>

(***************************************************************************)
(* The HTTP routes                                                         *)
(***************************************************************************)
Respond(op, status, session) == [op |-> op, status |-> status, session |-> session]

\* the catch of a route: res.status(500)
Fail(h) ==
    /\ lastResponse' = Respond(h.op, 500, 0)
    /\ handlers' = Retire(h)

\* POST /api/chat/start, up to `await storage.getCustomerByEmail`
HttpStart(email) ==
    /\ Arrives
    /\ CanSpawn
    /\ \E ok \in Outcomes :
         handlers' = Spawn(Handler("http_start", "gotCustomer", NoClient, Undefined,
                                   NoIdentity, [email |-> email], 0, NoAgent,
                                   IF ok THEN getCustomerByEmail(email) ELSE 0, ~ok))
    /\ UNCHANGED <<storeVars, hubVars, lastResponse, now, storeMayFail, lastError, leftSent, clientVars>>

\* POST /api/chat/start after the lookup: create the customer if none was
\* found, else go on to getAgentsByRole
HttpStartCustomer(h) ==
    /\ h.op = "http_start" /\ h.pc = "gotCustomer"
    /\ IF h.failed
       THEN Fail(h) /\ UNCHANGED customers
       ELSE /\ \E ok \in Outcomes :
                IF h.ref = 0
                THEN /\ customers' =
                          IF ok
                          THEN Append(customers,
                                      createCustomer(CustomerNameOf(h.data.email),
                                                     h.data.email))
                          ELSE customers
                     /\ handlers' = Move(h, [h EXCEPT !.pc = "customerCreated",
                                                      !.ref = Len(customers) + 1,
                                                      !.failed = ~ok])
                ELSE /\ handlers' = Move(h, [h EXCEPT !.pc = "gotAgents",
                                                      !.failed = ~ok])
                     /\ UNCHANGED customers
            /\ UNCHANGED lastResponse
    /\ UNCHANGED <<isOnline, chatSessions, messages, hubVars, now, budget, storeMayFail, lastError, leftSent, clientVars>>

\* POST /api/chat/start after createCustomer: `await storage.getAgentsByRole`
HttpStartAgents(h) ==
    /\ h.op = "http_start" /\ h.pc = "customerCreated"
    /\ IF h.failed
       THEN Fail(h)
       ELSE /\ \E ok \in Outcomes :
                handlers' = Move(h, [h EXCEPT !.pc = "gotAgents", !.failed = ~ok])
            /\ UNCHANGED lastResponse
    /\ UNCHANGED <<storeVars, hubVars, now, budget, storeMayFail, lastError, leftSent, clientVars>>

\* the agent picked, were the isOnline flag not looked at
FirstListedAgent == getAgentsByRole("agent")[1]

\* the agent picked, were a senior agent to stand in when no user of role
\* agent is online
OnlineAgentOrSenior ==
    LET agents == getAgentsByRole("agent") \o getAgentsByRole("senior_agent")
        i == FirstOf({k \in Indexes(agents) : isOnline[agents[k]]})
    IN IF i = 0 THEN NoAgent ELSE agents[i]

\* availableAgents.find(agent => agent.isOnline): the user objects are the
\* Store's own, so the flag read is the current one
OnlineAgent ==
    LET agents == getAgentsByRole("agent")
        i == FirstOf({k \in Indexes(agents) : isOnline[agents[k]]})
    IN IF i = 0 THEN NoAgent ELSE agents[i]

\* POST /api/chat/start after getAgentsByRole: 503, or createChatSession
HttpStartSession(h) ==
    /\ h.op = "http_start" /\ h.pc = "gotAgents"
    /\ IF h.failed
       THEN Fail(h) /\ UNCHANGED chatSessions
       ELSE IF OnlineAgent = NoAgent
       THEN /\ lastResponse' = Respond(h.op, 503, 0)
            /\ handlers' = Retire(h)
            /\ UNCHANGED chatSessions
       ELSE /\ \E ok \in Outcomes, code \in SessionCodes :
                /\ chatSessions' =
                     IF ok
                     THEN Append(chatSessions,
                                 createChatSession(code, customers[h.ref].id,
                                                   OnlineAgent))
                     ELSE chatSessions
                /\ handlers' = Move(h, [h EXCEPT !.pc = "sessionCreated",
                                                 !.session = Len(chatSessions) + 1,
                                                 !.agentId = OnlineAgent,
                                                 !.failed = ~ok])
            /\ UNCHANGED lastResponse
    /\ UNCHANGED <<isOnline, customers, messages, hubVars, now, budget, storeMayFail, lastError, leftSent, clientVars>>

\* POST /api/chat/start: res.json({session, customer, agent})
HttpStartDone(h) ==
    /\ h.op = "http_start" /\ h.pc = "sessionCreated"
    /\ IF h.failed
       THEN Fail(h)
       ELSE /\ lastResponse' = Respond(h.op, 200, h.session)
            /\ handlers' = Retire(h)
    /\ UNCHANGED <<storeVars, hubVars, now, budget, storeMayFail, lastError, leftSent, clientVars>>

\* POST /api/chat/transfer, up to `await storage.getChatSessionBySessionId`
HttpTransfer(sessionId, data) ==
    /\ Arrives
    /\ CanSpawn
    /\ \E ok \in Outcomes :
         handlers' = Spawn(AwaitSession("http_transfer", NoClient, sessionId,
                                        NoIdentity, data, ok))
    /\ UNCHANGED <<storeVars, hubVars, lastResponse, now, storeMayFail, lastError, leftSent, clientVars>>

\* POST /api/chat/transfer after the session lookup: 404, or getUser
HttpTransferUser(h) ==
    /\ h.op = "http_transfer" /\ h.pc = "gotSession"
    /\ IF h.failed
       THEN Fail(h)
       ELSE IF h.session = 0
       THEN /\ lastResponse' = Respond(h.op, 404, 0)
            /\ handlers' = Retire(h)
       ELSE /\ \E ok \in Outcomes :
                handlers' = Move(h, [h EXCEPT !.pc = "gotUser",
                                              !.ref = IF ok /\ getUser(h.data.newAgentId)
                                                      THEN 1 ELSE 0,
                                              !.failed = ~ok])
            /\ UNCHANGED lastResponse
    /\ UNCHANGED <<storeVars, hubVars, now, budget, storeMayFail, lastError, leftSent, clientVars>>

\* POST /api/chat/transfer after getUser: 404, or push and updateChatSession
HttpTransferUpdate(h) ==
    /\ h.op = "http_transfer" /\ h.pc = "gotUser"
    /\ IF h.failed
       THEN Fail(h) /\ UNCHANGED chatSessions
       ELSE IF h.ref = 0
       THEN /\ lastResponse' = Respond(h.op, 404, 0)
            /\ handlers' = Retire(h)
            /\ UNCHANGED chatSessions
       ELSE /\ \E ok \in Outcomes :
                /\ chatSessions' = PushAndUpdate(h, ok)
                /\ handlers' = Move(h, [h EXCEPT !.pc = "updated", !.failed = ~ok])
            /\ UNCHANGED lastResponse
    /\ UNCHANGED <<isOnline, customers, messages, hubVars, now, budget, storeMayFail, lastError, leftSent, clientVars>>

\* `Chat transferred to ${newAgent.name} (${newAgent.role.replace('_', ' ')})`
TransferNotice(newAgentId) ==
    <<"Chat transferred to", UserName[newAgentId], RoleText(UserRole[newAgentId])>>

\* the system message of a transfer, filed under the session's id
SystemMessage(h) ==
    createMessage(chatSessions[h.session].id, "system", "system",
                  TransferNotice(h.data.newAgentId), "system")

\* POST /api/chat/transfer after the update: the system message
HttpTransferMessage(h) ==
    /\ h.op = "http_transfer" /\ h.pc = "updated"
    /\ IF h.failed
       THEN Fail(h) /\ UNCHANGED messages
       ELSE /\ \E ok \in Outcomes :
                /\ messages' = IF ok THEN Append(messages, SystemMessage(h))
                               ELSE messages
                /\ handlers' = Move(h, [h EXCEPT !.pc = "messageCreated",
                                                 !.failed = ~ok])
            /\ UNCHANGED lastResponse
    /\ UNCHANGED <<isOnline, customers, chatSessions, hubVars, now, budget, storeMayFail, lastError, leftSent, clientVars>>

\* POST /api/chat/transfer: res.json(updatedSession)
HttpTransferDone(h) ==
    /\ h.op = "http_transfer" /\ h.pc = "messageCreated"
    /\ IF h.failed
       THEN Fail(h)
       ELSE /\ lastResponse' = Respond(h.op, 200, h.session)
            /\ handlers' = Retire(h)
    /\ UNCHANGED <<storeVars, hubVars, now, budget, storeMayFail, lastError, leftSent, clientVars>>

\* POST /api/chat/end/:sessionId, up to the first await
HttpEnd(sessionId) ==
    /\ Arrives
    /\ CanSpawn
    /\ \E ok \in Outcomes :
         handlers' = Spawn(AwaitSession("http_end", NoClient, sessionId,
                                        NoIdentity, NoData, ok))
    /\ UNCHANGED <<storeVars, hubVars, lastResponse, now, storeMayFail, lastError, leftSent, clientVars>>

\* POST /api/chat/end/:sessionId after the lookup: 404, or updateChatSession
HttpEndUpdate(h) ==
    /\ h.op = "http_end" /\ h.pc = "gotSession"
    /\ IF h.failed
       THEN Fail(h) /\ UNCHANGED chatSessions
       ELSE IF h.session = 0
       THEN /\ lastResponse' = Respond(h.op, 404, 0)
            /\ handlers' = Retire(h)
            /\ UNCHANGED chatSessions
       ELSE /\ \E ok \in Outcomes :
                /\ chatSessions' = EndUpdate(h, ok)
                /\ handlers' = Move(h, [h EXCEPT !.pc = "updated", !.failed = ~ok])
            /\ UNCHANGED lastResponse
    /\ UNCHANGED <<isOnline, customers, messages, hubVars, now, budget, storeMayFail, lastError, leftSent, clientVars>>

\* POST /api/chat/end/:sessionId: res.json(updatedSession)
HttpEndDone(h) ==
    /\ h.op = "http_end" /\ h.pc = "updated"
    /\ IF h.failed
       THEN Fail(h)
       ELSE /\ lastResponse' = Respond(h.op, 200, h.session)
            /\ handlers' = Retire(h)
    /\ UNCHANGED <<storeVars, hubVars, now, budget, storeMayFail, lastError, leftSent, clientVars>>

\* the seeded passwords
Password == [u \in UserIds |-> IF u = "admin" THEN "admin123" ELSE "password123"]

\* the credentials a login request carries: a seeded agent or nobody's name,
\* the agents' password or another
Usernames == {"agent1", "ghost"}

Passwords == {"password123", "letmein"}

\* MemStorage.getUserByUsername: the user, or undefined
getUserByUsername(username) == IF username \in UserIds THEN username ELSE NoAgent

\* POST /api/auth/login, up to `await storage.getUserByUsername`
HttpLogin(username, password) ==
    /\ Arrives
    /\ CanSpawn
    /\ \E ok \in Outcomes :
         handlers' = Spawn(Handler("http_login", "gotUser", NoClient, Undefined,
                                   NoIdentity,
                                   [username |-> username, password |-> password],
                                   0, IF ok THEN getUserByUsername(username)
                                      ELSE NoAgent, 0, ~ok))
    /\ UNCHANGED <<storeVars, hubVars, lastResponse, now, storeMayFail, lastError, leftSent, clientVars>>

\* MemStorage.updateUserOnlineStatus(id, isOnline)
updateUserOnlineStatus(id, online) ==
    [u \in UserIds |-> IF u = id THEN online ELSE isOnline[u]]

\* POST /api/auth/login after the lookup: 401, or updateUserOnlineStatus(id, true)
HttpLoginUpdate(h) ==
    /\ h.op = "http_login" /\ h.pc = "gotUser"
    /\ IF h.failed
       THEN Fail(h) /\ UNCHANGED isOnline
       ELSE IF h.agentId = NoAgent \/ Password[h.agentId] # h.data.password
       THEN /\ lastResponse' = Respond(h.op, 401, 0)
            /\ handlers' = Retire(h)
            /\ UNCHANGED isOnline
       ELSE /\ \E ok \in Outcomes :
                /\ isOnline' = IF ok THEN updateUserOnlineStatus(h.agentId, TRUE)
                               ELSE isOnline
                /\ handlers' = Move(h, [h EXCEPT !.pc = "updated", !.failed = ~ok])
            /\ UNCHANGED lastResponse
    /\ UNCHANGED <<customers, chatSessions, messages, hubVars, now, budget,
                   storeMayFail, lastError, leftSent, clientVars>>

\* POST /api/auth/login: res.json({user})
HttpLoginDone(h) ==
    /\ h.op = "http_login" /\ h.pc = "updated"
    /\ IF h.failed
       THEN Fail(h)
       ELSE /\ lastResponse' = Respond(h.op, 200, 0)
            /\ handlers' = Retire(h)
    /\ UNCHANGED <<storeVars, hubVars, now, budget, storeMayFail, lastError, leftSent, clientVars>>

\* GET /api/chat/sessions/:sessionId/messages: the response
GetSessionMessages(sessionId) ==
    LET i == getChatSessionBySessionId(sessionId)
    IN IF i = 0
       THEN [status |-> 404, body |-> <<>>]
       ELSE [status |-> 200, body |-> getMessagesBySession(chatSessions[i].id)]

(***************************************************************************)
(* The client: useWebSocket and the join effect of useChat                 *)
(***************************************************************************)
maxReconnectAttempts == 5

\* the codes a close event carries when the peer or the network ends the
\* connection: a normal closure, or an abnormal one
CloseCodes == {1000, 1006}

\* what the component passes to useChat as userId and userType
ClientIdentity == [userId |-> "visitor", userType |-> "customer"]

\* the server's connections that no socket of the hook has seen open yet
Unclaimed == {c \in DOMAIN readyState : c > peer /\ readyState[c] = "OPEN"}

\* the mount: useWebSocket's effect calls connect(); useChat's join effect
\* runs with isConnected false and sends nothing
HookMount ==
    /\ mounted = "no"
    /\ mounted' = "yes"
    /\ socket' = "CONNECTING"
    /\ socketRef' = TRUE
    /\ UNCHANGED <<chatSessionId, closeCode, reconnectTimeoutRef, reconnectAttempts,
                   isConnected, effectDue, peer, joinSent>>
    /\ UNCHANGED <<storeVars, hubVars, handlers, lastResponse, now, budget,
                   storeMayFail, lastError, leftSent>>

\* the component gets its session: useChat's sessionId argument changes from
\* empty to a session code, a dependency of the join effect
HookSelectSession(code) ==
    /\ mounted = "yes"
    /\ chatSessionId = Undefined
    /\ chatSessionId' = code
    /\ effectDue' = TRUE
    /\ UNCHANGED <<mounted, socket, closeCode, socketRef, reconnectTimeoutRef,
                   reconnectAttempts, isConnected, peer, joinSent>>
    /\ UNCHANGED <<storeVars, hubVars, handlers, lastResponse, now, budget,
                   storeMayFail, lastError, leftSent>>

\* socket.onopen, were isConnected no dependency of the join effect
HookOnOpenQuiet ==
    /\ socket = "CONNECTING"
    /\ Unclaimed # {}
    /\ socket' = "OPEN"
    /\ peer' = CHOOSE c \in Unclaimed : TRUE
    /\ isConnected' = IF mounted = "yes" THEN TRUE ELSE isConnected
    /\ reconnectAttempts' = 0
    /\ UNCHANGED <<mounted, chatSessionId, closeCode, socketRef, reconnectTimeoutRef,
                   effectDue, joinSent>>
    /\ UNCHANGED <<storeVars, hubVars, handlers, lastResponse, now, budget,
                   storeMayFail, lastError, leftSent>>

\* socket.onopen, once the server has accepted the connection:
\* setIsConnected(true), which makes the join effect run, and
\* reconnectAttempts.current = 0
HookOnOpen ==
    /\ socket = "CONNECTING"
    /\ Unclaimed # {}
    /\ socket' = "OPEN"
    /\ peer' = CHOOSE c \in Unclaimed : TRUE
    /\ isConnected' = IF mounted = "yes" THEN TRUE ELSE isConnected
    /\ effectDue' = IF mounted = "yes" /\ ~isConnected THEN TRUE ELSE effectDue
    /\ reconnectAttempts' = 0
    /\ UNCHANGED <<mounted, chatSessionId, closeCode, socketRef, reconnectTimeoutRef,
                   joinSent>>
    /\ UNCHANGED <<storeVars, hubVars, handlers, lastResponse, now, budget,
                   storeMayFail, lastError, leftSent>>

\* the connection cannot be established: the close event will carry 1006
HookConnectFails ==
    /\ socket = "CONNECTING"
    /\ Unclaimed = {}
    /\ socket' = "CLOSING"
    /\ closeCode' = 1006
    /\ UNCHANGED <<mounted, chatSessionId, socketRef, reconnectTimeoutRef,
                   reconnectAttempts, isConnected, effectDue, peer, joinSent>>
    /\ UNCHANGED <<storeVars, hubVars, handlers, lastResponse, now, budget,
                   storeMayFail, lastError, leftSent>>

\* the peer or the network ends an open connection
HookDrop(code) ==
    /\ socket = "OPEN"
    /\ socket' = "CLOSING"
    /\ closeCode' = code
    /\ UNCHANGED <<mounted, chatSessionId, socketRef, reconnectTimeoutRef,
                   reconnectAttempts, isConnected, effectDue, peer, joinSent>>
    /\ UNCHANGED <<storeVars, hubVars, handlers, lastResponse, now, budget,
                   storeMayFail, lastError, leftSent>>

\* socket.onclose, were a reconnect scheduled after every unclean close
HookOnCloseAlwaysRetries ==
    /\ socket = "CLOSING"
    /\ socket' = "NONE"
    /\ closeCode' = NoCode
    /\ isConnected' = IF mounted = "yes" THEN FALSE ELSE isConnected
    /\ effectDue' = IF mounted = "yes" /\ isConnected THEN TRUE ELSE effectDue
    /\ socketRef' = FALSE
    /\ reconnectTimeoutRef' = IF closeCode # 1000 THEN TRUE ELSE reconnectTimeoutRef
    /\ UNCHANGED <<mounted, chatSessionId, reconnectAttempts, peer, joinSent>>
    /\ UNCHANGED <<storeVars, hubVars, handlers, lastResponse, now, budget,
                   storeMayFail, lastError, leftSent>>

\* socket.onclose: setIsConnected(false), socketRef.current = null, and the
\* reconnect timer if the code is not 1000 and attempts are left
HookOnClose ==
    /\ socket = "CLOSING"
    /\ socket' = "NONE"
    /\ closeCode' = NoCode
    /\ isConnected' = IF mounted = "yes" THEN FALSE ELSE isConnected
    /\ effectDue' = IF mounted = "yes" /\ isConnected THEN TRUE ELSE effectDue
    /\ socketRef' = FALSE
    /\ reconnectTimeoutRef' =
         IF closeCode # 1000 /\ reconnectAttempts < maxReconnectAttempts
         THEN TRUE ELSE reconnectTimeoutRef
    /\ UNCHANGED <<mounted, chatSessionId, reconnectAttempts, peer, joinSent>>
    /\ UNCHANGED <<storeVars, hubVars, handlers, lastResponse, now, budget,
                   storeMayFail, lastError, leftSent>>

\* the reconnect timer fires: reconnectAttempts.current++; connect()
HookReconnect ==
    /\ reconnectTimeoutRef
    /\ Unclaimed = {}
    /\ reconnectTimeoutRef' = FALSE
    /\ reconnectAttempts' = reconnectAttempts + 1
    /\ socket' = "CONNECTING"
    /\ socketRef' = TRUE
    /\ UNCHANGED <<mounted, chatSessionId, closeCode, isConnected, effectDue, peer,
                   joinSent>>
    /\ UNCHANGED <<storeVars, hubVars, handlers, lastResponse, now, budget,
                   storeMayFail, lastError, leftSent>>

\* the code of the close event after socket.close(1000, ...): 1000 for an
\* open socket; a socket still connecting fails with 1006; on a socket that
\* is closing already the call changes nothing
CodeAfterClose ==
    CASE socket = "OPEN" -> 1000
      [] socket = "CONNECTING" -> 1006
      [] OTHER -> closeCode

\* the unmount: the cleanup of useWebSocket's effect calls disconnect()
HookUnmount ==
    /\ mounted = "yes"
    /\ mounted' = "gone"
    /\ reconnectTimeoutRef' = FALSE
    /\ IF socketRef
       THEN socket' = "CLOSING" /\ closeCode' = CodeAfterClose
       ELSE UNCHANGED <<socket, closeCode>>
    /\ socketRef' = FALSE
    /\ isConnected' = FALSE
    /\ effectDue' = FALSE
    /\ UNCHANGED <<chatSessionId, reconnectAttempts, peer, joinSent>>
    /\ UNCHANGED <<storeVars, hubVars, handlers, lastResponse, now, budget,
                   storeMayFail, lastError, leftSent>>

\* useChat's join effect: if (isConnected && sessionId) sendMessage(join),
\* and sendMessage sends if socketRef.current is an open socket
HookJoinEffect ==
    /\ mounted = "yes"
    /\ effectDue
    /\ effectDue' = FALSE
    /\ joinSent' = IF /\ isConnected /\ chatSessionId # Undefined
                      /\ socketRef /\ socket = "OPEN"
                   THEN peer ELSE joinSent
    /\ UNCHANGED <<mounted, chatSessionId, socket, closeCode, socketRef,
                   reconnectTimeoutRef, reconnectAttempts, isConnected, peer>>
    /\ UNCHANGED <<storeVars, hubVars, handlers, lastResponse, now, budget,
                   storeMayFail, lastError, leftSent>>

(***************************************************************************)
(* The specifications                                                      *)
(***************************************************************************)
\* the state after registerRoutes and MemStorage's constructor (seedData),
\* and what will come: `pool` connections, `frames` frames and requests that
\* call the Store
Booted(pool, frames) ==
    /\ customers = SeedCustomers
    /\ chatSessions = <<>>
    /\ messages = <<>>
    /\ connectedClients = <<>>
    /\ readyState = [c \in 1..pool |-> "CONNECTING"]
    /\ handlers = EmptyBag
    /\ lastSent = NoSend
    /\ lastResponse = NoResponse
    /\ now = 0
    /\ budget = frames
    /\ lastError = NoError
    /\ leftSent = {}
    /\ mounted = "no"
    /\ chatSessionId = Undefined
    /\ socket = "NONE"
    /\ closeCode = NoCode
    /\ socketRef = FALSE
    /\ reconnectTimeoutRef = FALSE
    /\ reconnectAttempts = 0
    /\ isConnected = FALSE
    /\ effectDue = FALSE
    /\ peer = NoClient
    /\ joinSent = NoClient

SeedOnline == [u \in UserIds |-> TRUE]

Init ==
    /\ Booted(MaxWriters, MaxOps)
    /\ isOnline = SeedOnline
    /\ storeMayFail = FALSE

InitHub ==
    /\ Booted(MaxConns, MaxChats)
    /\ isOnline = SeedOnline
    /\ storeMayFail = FALSE

\* a Store that can reject calls
InitStoreFails ==
    /\ Booted(MaxWriters, MaxFaultyOps)
    /\ isOnline = SeedOnline
    /\ storeMayFail = TRUE

\* a Store whose users of role agent are online or not: users.isOnline
\* defaults to false in the schema, seedData sets it, nothing in the routes
\* clears it
InitSeed ==
    /\ Booted(MaxWriters, MaxOps)
    /\ isOnline \in {f \in [UserIds -> BOOLEAN] :
                       \A u \in UserIds : UserRole[u] # "agent" => f[u]}
    /\ storeMayFail = FALSE

Pool == DOMAIN readyState

\* the values `new Date()` takes, in milliseconds
Times == 0..MaxTime

\* the system clock that `new Date()` reads: it moves between two Store
\* writes or stands still (two writes in one millisecond), and being the wall
\* clock it can be set back
Tick ==
    /\ now' \in Times \ {now}
    /\ UNCHANGED <<storeVars, hubVars, handlers, lastResponse, budget,
                   storeMayFail, lastError, leftSent, clientVars>>

\* the frames that write to the Store, sent by a participant under its own
\* identity
Writes(c) ==
    \/ \E s \in FrameSessionIds, d \in ChatData :
         WsChatMessage(c, s, ParticipantAt(c), d)
    \/ \E s \in FrameSessionIds, d \in TransferData :
         WsSessionTransfer(c, s, ParticipantAt(c), d)
    \/ \E s \in FrameSessionIds : WsSessionEnded(c, s, ParticipantAt(c))

Routes ==
    \/ \E e \in Emails : HttpStart(e)
    \/ \E s \in SessionCodes, d \in TransferData : HttpTransfer(s, d)
    \/ \E s \in SessionCodes : HttpEnd(s)

Resume(h) ==
    \/ WsChatMessageDone(h)
    \/ WsSessionTransferUpdate(h)
    \/ WsSessionTransferDone(h)
    \/ WsSessionEndedUpdate(h)
    \/ WsSessionEndedDone(h)
    \/ HttpStartCustomer(h)
    \/ HttpStartAgents(h)
    \/ HttpStartSession(h)
    \/ HttpStartDone(h)
    \/ HttpTransferUser(h)
    \/ HttpTransferUpdate(h)
    \/ HttpTransferMessage(h)
    \/ HttpTransferDone(h)
    \/ HttpEndUpdate(h)
    \/ HttpEndDone(h)

\* the sessions and their Store: the routes and the frames that write
Next ==
    \/ WsConnection
    \/ \E c \in Pool : Writes(c)
    \/ Routes
    \/ \E h \in InFlight : Resume(h)

\* the frames of the relay: join, typing, a chat_message under any identity,
\* frames the switch has no case for, and connections going away
Relay(c) ==
    \/ \E s \in FrameSessionIds : WsJoinSession(c, s, ParticipantAt(c))
    \/ \E s \in FrameSessionIds :
         WsTyping(c, IF ParticipantAt(c).userType = "agent" THEN "agent_typing"
                     ELSE "customer_typing", s, ParticipantAt(c))
    \/ \E s \in FrameSessionIds, i \in FrameIdentities :
         WsChatMessage(c, s, i, [content |-> <<"Hello">>, senderName |-> "Jane"])
    \/ WsUnhandledFrame(c)
    \/ WsDrop(c)
    \/ WsClose(c)

\* the hub's connections
NextHub ==
    \/ WsConnection
    \/ \E c \in Pool : Relay(c)
    \/ \E h \in InFlight : WsChatMessageDone(h)

\* the same, with the participants joining sessions so that a broadcast has
\* someone to reach
NextJoined ==
    \/ Next
    \/ \E c \in Pool, s \in SessionCodes : WsJoinSession(c, s, ParticipantAt(c))

\* joining and leaving, typing, and the frames that are malformed: not
\* parseable, or without a session code
Frames(c) ==
    \/ \E s \in FrameSessionIds : WsJoinSession(c, s, ParticipantAt(c))
    \/ \E s \in FrameSessionIds :
         WsTyping(c, IF ParticipantAt(c).userType = "agent" THEN "agent_typing"
                     ELSE "customer_typing", s, ParticipantAt(c))
    \/ WsLeaveSession(c)
    \/ WsUnparseableFrame(c)

NextFrames ==
    \/ WsConnection
    \/ \E c \in Pool : Frames(c)

Spec == Init /\ [][Next]_vars

\* MemStorage, with the participants joining
SpecJoined == Init /\ [][NextJoined]_vars

SpecFrames == InitHub /\ [][NextFrames]_vars

SpecHub == InitHub /\ [][NextHub]_vars

SpecStoreFails == InitStoreFails /\ [][NextJoined]_vars

SpecSeed == InitSeed /\ [][Next]_vars

\* a participant who connects, joins and goes away, while agents log in and
\* customers start sessions; the agents are online or not at the outset
InitLogin ==
    /\ Booted(MaxWriters, MaxOps)
    /\ isOnline \in {f \in [UserIds -> BOOLEAN] :
                       \A u \in UserIds : UserRole[u] # "agent" => f[u]}
    /\ storeMayFail = FALSE

Comes(c) ==
    \/ \E s \in SessionCodes, i \in FrameIdentities : WsJoinSession(c, s, i)
    \/ WsDrop(c)
    \/ WsClose(c)

NextLogin ==
    \/ WsConnection
    \/ \E c \in Pool : Comes(c)
    \/ \E n \in Usernames, p \in Passwords : HttpLogin(n, p)
    \/ \E e \in Emails : HttpStart(e)
    \/ \E h \in InFlight :
         \/ HttpLoginUpdate(h)
         \/ HttpLoginDone(h)
         \/ HttpStartCustomer(h)
         \/ HttpStartAgents(h)
         \/ HttpStartSession(h)
         \/ HttpStartDone(h)

SpecLogin == InitLogin /\ [][NextLogin]_vars

\* the client and the server's side of its connections
InitClient ==
    /\ Booted(MaxConns, 0)
    /\ isOnline = SeedOnline
    /\ storeMayFail = FALSE

\* the server accepts the connection the hook is opening
ServerAccepts ==
    /\ socket = "CONNECTING"
    /\ Unclaimed = {}
    /\ WsConnection

\* the join_session frame the hook sent arrives
ServerJoins ==
    /\ joinSent # NoClient
    /\ IsOpen(joinSent)
    /\ connectedClients[joinSent].sessionId # chatSessionId
    /\ WsJoinSession(joinSent, chatSessionId, ClientIdentity)

\* the server sees a connection end that the client no longer has open
ServerSeesEnd(c) ==
    /\ c # peer \/ socket \in {"CLOSING", "NONE"}
    /\ WsDrop(c)

NextClient ==
    \/ HookMount
    \/ \E code \in SessionCodes : HookSelectSession(code)
    \/ ServerAccepts
    \/ HookOnOpen
    \/ HookConnectFails
    \/ \E code \in CloseCodes : HookDrop(code)
    \/ HookOnClose
    \/ HookReconnect
    \/ HookUnmount
    \/ HookJoinEffect
    \/ ServerJoins
    \/ \E c \in Pool : ServerSeesEnd(c)
    \/ \E c \in Pool : WsClose(c)

SpecClient == InitClient /\ [][NextClient]_vars

\* two participants, each on its own connection, and a Store that can reject
InitPeers ==
    /\ Booted(MaxPeers, MaxFaultyOps)
    /\ isOnline = SeedOnline
    /\ storeMayFail = TRUE

\* a chat_message frame with content
Hello == [content |-> <<"Hello">>, senderName |-> "Jane"]

\* the participants join sessions and chat
Chats(c) ==
    \/ \E s \in SessionCodes : WsJoinSession(c, s, ParticipantAt(c))
    \/ \E s \in SessionCodes : WsChatMessage(c, s, ParticipantAt(c), Hello)

NextPeers ==
    \/ WsConnection
    \/ \E c \in Pool : Chats(c)
    \/ \E h \in InFlight : WsChatMessageDone(h)

SpecPeers == InitPeers /\ [][NextPeers]_vars

\* the sessions and their Store under a clock that moves
NextClock ==
    \/ Tick
    \/ Next

SpecClock == Init /\ [][NextClock]_vars

(***************************************************************************)
(* The isolated run of each of the two transfer paths: the handler run to  *)
(* its end with nothing interleaved, as the Store state it leaves.         *)
(***************************************************************************)
StoreState(sessions, msgs) == [chatSessions |-> sessions, messages |-> msgs]

\* ws.on('message') case 'session_transfer', run to its end
SocketTransferRun(sessionId, data) ==
    LET h == AwaitSession("session_transfer", NoClient, sessionId, NoIdentity,
                          data, TRUE)
    IN IF h.session = 0
       THEN StoreState(chatSessions, messages)
       ELSE StoreState(PushAndUpdate(h, TRUE), messages)

\* POST /api/chat/transfer, run to its end
HttpTransferRun(sessionId, data) ==
    LET h == AwaitSession("http_transfer", NoClient, sessionId, NoIdentity,
                          data, TRUE)
    IN IF h.session = 0 \/ ~getUser(data.newAgentId)
       THEN StoreState(chatSessions, messages)
       ELSE StoreState(PushAndUpdate(h, TRUE), Append(messages, SystemMessage(h)))

(***************************************************************************)
(* Properties                                                              *)
(***************************************************************************)
\* the handler h is resumed by this step
Resumed(h) == CopiesIn(h, handlers') < CopiesIn(h, handlers)

IsPrefix(s, t) == Len(s) <= Len(t) /\ SubSeq(t, 1, Len(s)) = s

SocketOps == {"chat_message", "session_transfer", "session_ended"}

TransferOps == {"session_transfer", "http_transfer"}

BoundTo(sessionId) ==
    {c \in DOMAIN connectedClients :
        connectedClients[c].sessionId = sessionId /\ readyState[c] = "OPEN"}

\* C1: once the Store has confirmed the message of a chat_message frame for
\* the session code S of an existing session, GET /api/chat/sessions/S/messages
\* returns a transcript that holds a message with the sender kind and the
\* content that were sent.
C1_ChatIsInTranscript ==
    \A h \in InFlight :
        (h.op = "chat_message" /\ h.pc = "created" /\ ~h.failed) =>
            LET got == GetSessionMessages(h.sessionId)
            IN got.status = 200 =>
                 \E k \in Indexes(got.body) :
                     /\ got.body[k].senderType = h.userType
                     /\ got.body[k].content = h.data.content

\* C2: the broadcast of a stored chat_message for session S is sent to every
\* open connection bound to S, the sender's included, and to no connection
\* bound to another session or to none.
C2_ChatReachesTheSession ==
    [][\A h \in InFlight :
          (h.op = "chat_message" /\ h.pc = "created" /\ ~h.failed /\ Resumed(h)) =>
              /\ lastSent'.message.type = "chat_message"
              /\ lastSent'.message.data.message = messages[h.ref]
              /\ lastSent'.sessionId = h.sessionId
              /\ lastSent'.to = BoundTo(h.sessionId)
              /\ (IsOpen(h.client)
                    /\ connectedClients[h.client].sessionId = h.sessionId
                  => h.client \in lastSent'.to)]_vars

\* C2's case: a chat message went to two connections of its session, its
\* sender among them, while a third open connection is bound to another session
C2_Witness ==
    /\ lastSent.message.type = "chat_message"
    /\ Cardinality(lastSent.to) >= 2
    /\ \E c \in lastSent.to :
         lastSent.message.data.message.senderId = connectedClients[c].userId
    /\ \E c \in DOMAIN connectedClients :
         /\ readyState[c] = "OPEN"
         /\ connectedClients[c].sessionId \in SessionCodes \ {lastSent.sessionId}
         /\ c \notin lastSent.to

\* C3: the transfers of one session are serialized: in its transferHistory
\* every record's fromAgent is the agent the session had just before that
\* transfer was committed, so each record starts at the agent the record
\* before it ended at.
C3_TransfersChain ==
    \A i \in Indexes(chatSessions) :
        LET hist == chatSessions[i].transferHistory
        IN \A k \in 2..Len(hist) : hist[k].fromAgent = hist[k - 1].toAgent

\* C4: in every reachable state, a session's endTime is set iff its status is
\* resolved or terminated.
C4_EndTimeIffEnded ==
    \A i \in Indexes(chatSessions) :
        (chatSessions[i].endTime # NoTime)
            <=> (chatSessions[i].status \in {"resolved", "terminated"})

\* C4's case: a session that was transferred and then or before ended, with
\* no handler left in flight
C4_Witness ==
    /\ \E i \in Indexes(chatSessions) :
         /\ chatSessions[i].status = "resolved"
         /\ chatSessions[i].endTime # NoTime
         /\ chatSessions[i].transferHistory # <<>>
    /\ handlers = EmptyBag

\* C5: across every step, a session's transferHistory before the step is a
\* prefix of the one after it, and it changes only in the step that commits a
\* transfer: then exactly the record of that transfer is appended and the
\* session's agent becomes the record's toAgent.
C5_HistoryAppendOnly ==
    [][\A i \in Indexes(chatSessions) :
          LET old == chatSessions[i].transferHistory
              new == chatSessions'[i].transferHistory
          IN /\ IsPrefix(old, new)
             /\ new # old =>
                  \E h \in InFlight :
                      /\ h.op \in TransferOps /\ h.session = i /\ Resumed(h)
                      /\ new = Append(old, TransferRecord(h.agentId, h.data))
                      /\ chatSessions'[i].agentId = h.data.newAgentId]_vars

\* C5's case: a session transferred twice, both records kept
C5_Witness ==
    \E i \in Indexes(chatSessions) :
        /\ Len(chatSessions[i].transferHistory) = 2
        /\ chatSessions[i].agentId = chatSessions[i].transferHistory[2].toAgent

\* C6: whatever the sequence and interleaving of POST /api/chat/start calls,
\* the Store holds at most one customer per email address.
C6_OneCustomerPerEmail ==
    \A i, j \in Indexes(customers) :
        customers[i].email = customers[j].email => i = j

\* C7: a POST /api/chat/start that finds no user of role agent online answers
\* 503 and creates no chat session.
C7_NoAgentNoSession ==
    [][\A h \in InFlight :
          (/\ h.op = "http_start" /\ h.pc = "gotAgents" /\ ~h.failed /\ Resumed(h)
           /\ \A u \in UserIds : UserRole[u] = "agent" => ~isOnline[u]) =>
              /\ lastResponse' = Respond("http_start", 503, 0)
              /\ chatSessions' = chatSessions
              /\ h.session = 0
              /\ handlers' = Retire(h)]_vars

\* C7's case: no agent online, a start answered 503, no session in the Store
C7_Witness ==
    /\ \A u \in UserIds : UserRole[u] = "agent" => ~isOnline[u]
    /\ lastResponse = Respond("http_start", 503, 0)
    /\ chatSessions = <<>>
    /\ Len(customers) > Len(SeedCustomers)

\* C8: a successful POST /api/chat/transfer of session S from its current
\* agent A to an existing agent B appends exactly one record {fromAgent: A,
\* toAgent: B} where A is the agent S has when the transfer is committed, sets
\* S's agent to B, and adds one system message naming B that is in S's
\* transcript.
C8_TransferEffect ==
    [][\A h \in InFlight :
          (h.op = "http_transfer" /\ ~h.failed /\ Resumed(h)) =>
              LET i == h.session
                  B == h.data.newAgentId
              IN /\ (h.pc = "gotUser" /\ h.ref = 1) =>
                      /\ chatSessions'[i].transferHistory =
                           Append(chatSessions[i].transferHistory,
                                  TransferRecord(chatSessions[i].agentId, h.data))
                      /\ chatSessions'[i].agentId = B
                 /\ h.pc = "updated" =>
                      /\ Len(messages') = Len(messages) + 1
                      /\ messages'[Len(messages')].senderType = "system"
                      /\ messages'[Len(messages')].content = TransferNotice(B)
                      /\ messages'[Len(messages')].sessionId = chatSessions[i].id]_vars

\* C9: a transfer made by a session_transfer frame and the same transfer made
\* by POST /api/chat/transfer, each run alone from the same Store state, leave
\* the same Store state.
C9_SameTransferEitherWay ==
    \A s \in SessionCodes, d \in TransferData :
        SocketTransferRun(s, d) = HttpTransferRun(s, d)

\* C10: a chat_message, session_transfer or session_ended whose Store call
\* fails is broadcast to no connection: the handler ends without a send, and
\* a send of one of these events is made only by a handler whose Store calls
\* were all confirmed.
C10_NoBroadcastOnFailure ==
    [][/\ \A h \in InFlight :
            (h.op \in SocketOps /\ h.failed /\ Resumed(h)) =>
                /\ lastSent' = lastSent
                /\ handlers' = Retire(h)
       /\ (lastSent' # lastSent /\ lastSent'.message.type \in SocketOps) =>
            \E h \in InFlight :
                /\ h.op = lastSent'.message.type
                /\ h.sessionId = lastSent'.sessionId
                /\ ~h.failed
                /\ h.pc = IF h.op = "chat_message" THEN "created" ELSE "updated"
                /\ handlers' = Retire(h)]_vars

\* C10's case: a connection is bound to a session, a session_transfer for it
\* was rejected by the Store at the update, the catch has run, and the last
\* thing sent is still the join's status
C10_Witness ==
    /\ lastError = ConsoleError([op |-> "session_transfer"])
    /\ handlers = EmptyBag
    /\ lastSent.message.type = "agent_status"
    /\ \E i \in Indexes(chatSessions) :
         /\ chatSessions[i].transferHistory # <<>>
         /\ chatSessions[i].agentId = "agent1"
         /\ BoundTo(chatSessions[i].sessionId) # {}

\* C11: when the Store fails during a chat_message, session_transfer or
\* session_ended, the handler sends an error indication to the connection the
\* frame came from, and to that connection only.
C11_ErrorToTheSender ==
    [][\A h \in InFlight :
          (h.op \in SocketOps /\ h.failed /\ Resumed(h)) =>
              /\ lastSent' # lastSent
              /\ lastSent'.message.type = "error"
              /\ lastSent'.to = {c \in {h.client} : readyState[c] = "OPEN"}]_vars

\* C12: once session S is resolved, a chat_message frame for S is rejected or
\* ignored: it adds no chat message for S to the Store and starts no handler
\* that would broadcast one.
C12_NoChatAfterEnd ==
    [][\A i \in Indexes(chatSessions) :
          chatSessions[i].status = "resolved" =>
              /\ \A k \in Indexes(messages') \ Indexes(messages) :
                    (messages'[k].sessionId \in
                        {chatSessions[i].sessionId, chatSessions[i].id})
                    => messages'[k].messageType # "text"
              /\ \A h \in BagToSet(handlers') :
                    (h.op = "chat_message"
                       /\ h.sessionId = chatSessions[i].sessionId)
                    => CopiesIn(h, handlers') <= CopiesIn(h, handlers)]_vars

EndOps == {"session_ended", "http_end"}

\* C13: the step that commits the end of a session leaves it resolved with
\* its endTime set, and no step (a second end, a transfer, a chat message)
\* takes a resolved session's status away from resolved or clears its endTime.
C13_ResolvedStays ==
    [][\A i \in Indexes(chatSessions) :
          /\ chatSessions[i].status = "resolved" =>
                /\ chatSessions'[i].status = "resolved"
                /\ chatSessions'[i].endTime # NoTime
          /\ \A h \in InFlight :
                (h.op \in EndOps /\ h.pc = "gotSession" /\ ~h.failed
                   /\ h.session = i /\ Resumed(h)) =>
                    /\ chatSessions'[i].status = "resolved"
                    /\ chatSessions'[i].endTime # NoTime]_vars

\* C13's case: a transfer has been committed on a session that is resolved
\* and still is, the transfer's handler not yet done
C13_Witness ==
    \E h \in InFlight :
        /\ h.op \in TransferOps /\ h.pc = "updated" /\ ~h.failed
        /\ chatSessions[h.session].status = "resolved"
        /\ chatSessions[h.session].endTime # NoTime
        /\ chatSessions[h.session].agentId = h.data.newAgentId
        /\ BagCardinality(handlers) = 1

TypingTypes == {"agent_typing", "customer_typing"}

\* C14: an agent_typing or customer_typing frame for session S from
\* connection c is sent, as it came, to every open connection bound to S other
\* than c, and never to c.
C14_TypingToOthers ==
    [][\A c \in Pool, s \in SessionCodes, t \in TypingTypes, i \in FrameIdentities :
          WsTyping(c, t, s, i) =>
              /\ lastSent'.message = TypingFrame(t, s, i)
              /\ lastSent'.to =
                   {d \in DOMAIN connectedClients :
                       /\ d # c
                       /\ connectedClients[d].sessionId = s
                       /\ readyState[d] = "OPEN"}
              /\ c \notin lastSent'.to]_vars

\* C14's case: a typing frame went to the other connections of its session
\* while its sender, bound to the same session and open, is not among them
C14_Witness ==
    /\ lastSent.message.type \in TypingTypes
    /\ lastSent.to # {}
    /\ \E c \in BoundTo(lastSent.sessionId) \ lastSent.to :
         connectedClients[c].userId = lastSent.message.userId

\* C15: a leave_session frame from a connection bound to session S removes
\* the binding and sends a "left" status to the remaining open connections of
\* S; from then on nothing is sent to the connection that left, until it
\* joins again.
C15_LeaveUnbinds ==
    [][/\ \A c \in Pool :
            (WsLeaveSession(c) /\ connectedClients[c].sessionId \in SessionCodes) =>
                /\ connectedClients'[c].sessionId = Undefined
                /\ lastSent'.message = LeftStatus(connectedClients[c])
                /\ lastSent'.to = BoundTo(connectedClients[c].sessionId) \ {c}
       /\ lastSent' # lastSent => lastSent'.to \cap leftSent' = {}]_vars

\* C16: when the socket of a connection closes, the remaining open
\* connections of its session are sent a "left" status and its entry is
\* removed from the registry; from the moment it drops nothing is sent to it,
\* it never opens again, and once closed it is in no session's connection set.
C16_DropIsLeave ==
    [][\A c \in Pool :
          /\ (readyState[c] = "CLOSING" /\ readyState'[c] = "CLOSED") =>
                /\ c \notin DOMAIN connectedClients'
                /\ connectedClients[c].sessionId # Undefined =>
                      /\ lastSent'.message = LeftStatus(connectedClients[c])
                      /\ lastSent'.to =
                           {d \in DOMAIN connectedClients :
                               /\ d # c
                               /\ connectedClients[d].sessionId =
                                    connectedClients[c].sessionId
                               /\ readyState[d] = "OPEN"}
          /\ readyState[c] \in {"CLOSING", "CLOSED"} =>
                /\ readyState'[c] # "OPEN"
                /\ lastSent' # lastSent => c \notin lastSent'.to
          /\ readyState'[c] = "CLOSED" =>
                /\ c \notin DOMAIN connectedClients'
                /\ \A s \in SessionCodes : c \notin BoundTo(s)']_vars

\* C16's case: a connection has closed and is out of the registry, and the
\* "left" status for it went to a connection that remains on its session
C16_Witness ==
    /\ lastSent.message.type = "agent_status"
    /\ lastSent.message.data.status = "left"
    /\ lastSent.to # {}
    /\ lastSent.to \subseteq BoundTo(lastSent.sessionId)
    /\ \E c \in Pool : readyState[c] = "CLOSED" /\ c \notin DOMAIN connectedClients

\* C17: a join_session frame for session code S from connection c binds c to
\* the frame's participant id, kind and S, leaves every other binding as it
\* was, and then sends a "joined" status to every open connection bound to S,
\* c included.
C17_JoinNotifiesAll ==
    [][\A c \in Pool, s \in SessionCodes, i \in FrameIdentities :
          WsJoinSession(c, s, i) =>
              /\ connectedClients'[c] =
                   [userId |-> i.userId, userType |-> i.userType, sessionId |-> s]
              /\ \A d \in DOMAIN connectedClients \ {c} :
                   connectedClients'[d] = connectedClients[d]
              /\ lastSent'.message = JoinedStatus(i)
              /\ lastSent'.to =
                   {d \in DOMAIN connectedClients' :
                       connectedClients'[d].sessionId = s /\ readyState[d] = "OPEN"}
              /\ c \in lastSent'.to]_vars

\* C17's case: a "joined" status went to two connections of the session, the
\* one that joined among them
C17_Witness ==
    /\ lastSent.message.type = "agent_status"
    /\ lastSent.message.data.status = "joined"
    /\ lastSent.sessionId \in SessionCodes
    /\ Cardinality(lastSent.to) >= 2
    /\ \E c \in lastSent.to :
         /\ IsOpen(c)
         /\ connectedClients[c].sessionId = lastSent.sessionId
         /\ connectedClients[c].userId = lastSent.message.data.userId

MalformedFrame(c) ==
    \/ WsUnparseableFrame(c)
    \/ \E i \in FrameIdentities : WsJoinSession(c, Undefined, i)
    \/ \E t \in TypingTypes, i \in FrameIdentities : WsTyping(c, t, Undefined, i)

\* C19: a malformed frame is dropped silently: the step that handles it
\* changes no connection's binding and nothing in the Store, sends nothing to
\* any connection, and leaves the connection open and registered, so that
\* its later frames are processed.
C19_MalformedDropped ==
    [][\A c \in Pool :
          MalformedFrame(c) =>
              /\ connectedClients' = connectedClients
              /\ UNCHANGED storeVars
              /\ lastSent' = lastSent
              /\ IsOpen(c)']_vars

\* C20: in every reachable state a session's agentId is null or the id of a
\* user the Store holds, and the toAgent of every record of its
\* transferHistory is a user the Store holds.
C20_AgentsExist ==
    \A i \in Indexes(chatSessions) :
        /\ chatSessions[i].agentId = NoAgent \/ getUser(chatSessions[i].agentId)
        /\ \A k \in Indexes(chatSessions[i].transferHistory) :
             getUser(chatSessions[i].transferHistory[k].toAgent)

\* the handlers of the two HTTP routes that look a session up first
HttpLookupOps == {"http_transfer", "http_end"}

\* C21: an HTTP transfer naming a session code under which nothing is stored,
\* or a target agent that is no user, and an HTTP end naming such a session
\* code, answer 404, and no step of the request (its arrival, its lookups, its
\* answer) changes a session, a transfer history or a message
C21_NotFoundChangesNothing ==
    [][/\ \A h \in BagToSet(handlers') \ InFlight :
            h.op \in HttpLookupOps /\ h.pc = "gotSession" /\ ~h.failed
            => /\ h.session = getChatSessionBySessionId(h.sessionId)
               /\ chatSessions' = chatSessions /\ messages' = messages
       /\ \A h \in InFlight :
            (Resumed(h) /\ h.op \in HttpLookupOps /\ ~h.failed)
            => /\ (h.pc = "gotSession" /\ h.session = 0)
                  => /\ lastResponse' = Respond(h.op, 404, 0)
                     /\ handlers' = Retire(h)
                     /\ chatSessions' = chatSessions /\ messages' = messages
               /\ (h.op = "http_transfer" /\ h.pc = "gotSession" /\ h.session # 0)
                  => chatSessions' = chatSessions /\ messages' = messages
               /\ (h.pc = "gotUser" /\ h.data.newAgentId \notin UserIds)
                  => /\ lastResponse' = Respond(h.op, 404, 0)
                     /\ handlers' = Retire(h)
                     /\ chatSessions' = chatSessions /\ messages' = messages
      ]_vars

\* a session was started, a transfer was then answered 404, and the session
\* is as it was created
C21_Witness ==
    /\ lastResponse = Respond("http_transfer", 404, 0)
    /\ handlers = EmptyBag
    /\ budget = MaxOps - 2
    /\ Len(chatSessions) = 1
    /\ chatSessions[1].transferHistory = <<>>
    /\ chatSessions[1].status = "active"
    /\ messages = <<>>

\* C22: every session that POST /api/chat/start creates has status active and
\* an agent who, at the step that selects the agent and creates the session,
\* has role agent and is online; no user of another role is assigned, also
\* when no user of role agent is online (then no session is created).
C22_AssignedAgentIsOnlineAgent ==
    [][Len(chatSessions') # Len(chatSessions)
       => /\ Len(chatSessions') = Len(chatSessions) + 1
          /\ SubSeq(chatSessions', 1, Len(chatSessions)) = chatSessions
          /\ LET s == chatSessions'[Len(chatSessions')]
             IN /\ s.status = "active"
                /\ s.agentId \in UserIds
                /\ UserRole[s.agentId] = "agent"
                /\ isOnline[s.agentId]
          /\ \E u \in UserIds : UserRole[u] = "agent" /\ isOnline[u]
      ]_vars

\* the first listed agent is offline, and a session was created for the second
C22_Witness ==
    /\ ~isOnline["agent1"] /\ isOnline["agent2"]
    /\ Len(chatSessions) = 1
    /\ chatSessions[1].agentId = "agent2"
    /\ chatSessions[1].status = "active"
    /\ lastResponse = Respond("http_start", 200, 1)

\* C23: session codes are unique: no two stored sessions have the same
\* sessionId, also when two POST /api/chat/start calls fall into the same
\* millisecond and draw the same random suffix.
C23_SessionCodesUnique ==
    \A i, j \in Indexes(chatSessions) :
        chatSessions[i].sessionId = chatSessions[j].sessionId => i = j

\* the keys messages are filed under
MessageKeys == {messages[i].sessionId : i \in Indexes(messages)}

\* the place of a stored message in the order of creation
CreatedAt(m) == CHOOSE i \in Indexes(messages) : messages[i] = m

\* C24: the messages retrieved for a session are all and only the messages
\* filed under it, in order of non-decreasing timestamp, and messages with
\* equal timestamps are in the order of their creation.
C24_TranscriptInTimeOrder ==
    \A key \in MessageKeys \cup SessionCodes :
        LET r == getMessagesBySession(key)
            filed == {i \in Indexes(messages) : messages[i].sessionId = key}
        IN /\ Len(r) = Cardinality(filed)
           /\ {r[k] : k \in Indexes(r)} = {messages[i] : i \in filed}
           /\ \A k, l \in Indexes(r) :
                k < l => \/ r[k].timestamp < r[l].timestamp
                         \/ /\ r[k].timestamp = r[l].timestamp
                            /\ CreatedAt(r[k]) < CreatedAt(r[l])

\* three messages of one session, created while the clock was set back once
\* and with two of them in the same millisecond
C24_Witness ==
    \E key \in MessageKeys :
        LET f == SelectSeq(messages, LAMBDA m : m.sessionId = key)
        IN /\ Len(f) >= 3
           /\ \E i, j \in Indexes(f) : i < j /\ f[i].timestamp > f[j].timestamp
           /\ \E i, j \in Indexes(f) : i < j /\ f[i].timestamp = f[j].timestamp
           /\ getMessagesBySession(key) # f

\* C25: a chat_message frame is applied only when the sending connection is
\* bound to the session the frame names and the frame has non-empty content;
\* otherwise no message is created and nothing is broadcast for it (no handler
\* is left that would broadcast).
C25_ChatNeedsBindingAndContent ==
    [][\A c \in Pool, s \in FrameSessionIds, i \in FrameIdentities, d \in ChatData :
          (/\ WsChatMessage(c, s, i, d)
           /\ \/ connectedClients[c].sessionId # s
              \/ s = Undefined
              \/ d = NoData
              \/ d.content = <<>>)
          => messages' = messages /\ handlers' = handlers]_vars

\* C26: every event sent goes only to connections bound to the session code
\* the event concerns; a connection that is registered but has joined no
\* session, or whose binding has no session code, is sent nothing.
C26_OnlyBoundConnectionsReceive ==
    [][lastSent' # lastSent
       => \A c \in lastSent'.to :
            /\ c \in DOMAIN connectedClients'
            /\ connectedClients'[c].sessionId \in SessionCodes
            /\ connectedClients'[c].sessionId = lastSent'.sessionId]_vars

\* C27: a connection bound to one session that sends join_session for another
\* has its binding overwritten and the bindings of the other connections are
\* left as they were; as every send goes to connections bound, when it is
\* sent, to the session it is for (all of them, but for an excluded sender),
\* the connection from then on receives the new session's broadcasts and none
\* of the old session's.
C27_RejoinMovesTheBinding ==
    [][/\ \A c \in DOMAIN connectedClients, s \in SessionCodes, i \in FrameIdentities :
            (/\ connectedClients[c].sessionId \in SessionCodes \ {s}
             /\ WsJoinSession(c, s, i))
            => /\ connectedClients'[c].sessionId = s
               /\ DOMAIN connectedClients' = DOMAIN connectedClients
               /\ \A d \in DOMAIN connectedClients \ {c} :
                    connectedClients'[d] = connectedClients[d]
               /\ c \in lastSent'.to
               /\ lastSent'.sessionId = s
       /\ lastSent' # lastSent
            => LET bound == {c \in DOMAIN connectedClients' :
                                /\ connectedClients'[c].sessionId = lastSent'.sessionId
                                /\ readyState'[c] = "OPEN"}
               IN /\ lastSent'.to \subseteq bound
                  /\ Cardinality(bound \ lastSent'.to) <= 1
      ]_vars

\* two connections are on one session, and one of them joins the other
\* session: it is bound to the new one and told so, its peer stays
C27_Witness ==
    \E c, d \in Pool, s \in SessionCodes :
        /\ c # d
        /\ c \in BoundTo(s) /\ d \in BoundTo(s)
        /\ \E t \in SessionCodes \ {s} :
             ENABLED (/\ WsJoinSession(c, t, ParticipantAt(c))
                      /\ connectedClients'[c].sessionId = t
                      /\ connectedClients'[d].sessionId = s
                      /\ c \in lastSent'.to /\ d \notin lastSent'.to)

\* C28: while a handler has a Store call outstanding for an event of one
\* session, or its call was rejected, the event of another session on another
\* connection is not held up: its frame can come in and be stored, and its
\* handler, once the Store has answered, can broadcast to the connections of
\* its session, the first handler staying as it is.
C28_OtherSessionsProceed ==
    \A hA \in InFlight :
        /\ \A c \in Pool, s \in SessionCodes :
             (/\ IsOpen(c) /\ c # hA.client /\ s # hA.sessionId
              /\ CanSpawn /\ budget > 0)
             => ENABLED (/\ WsChatMessage(c, s, ParticipantAt(c), Hello)
                         /\ Len(messages') = Len(messages) + 1
                         /\ messages'[Len(messages')].sessionId = s
                         /\ CopiesIn(hA, handlers') = CopiesIn(hA, handlers))
        /\ \A hB \in InFlight :
             (/\ hB.client # hA.client /\ hB.sessionId # hA.sessionId
              /\ hB.op = "chat_message" /\ ~hB.failed)
             => /\ messages[hB.ref].sessionId = hB.sessionId
                /\ ENABLED (/\ WsChatMessageDone(hB)
                            /\ lastSent'.message.type = "chat_message"
                            /\ lastSent'.message.data.message = messages[hB.ref]
                            /\ lastSent'.to = BoundTo(hB.sessionId)
                            /\ CopiesIn(hA, handlers') = CopiesIn(hA, handlers))

\* a chat message of one session is awaiting the Store's answer, and the
\* message that another connection sent afterwards for the other session
\* is stored and has been broadcast to that session
C28_Witness ==
    \E hA \in InFlight :
        /\ hA.op = "chat_message" /\ hA.pc = "created" /\ hA.ref = 1
        /\ Len(messages) = 2
        /\ messages[2].sessionId # hA.sessionId
        /\ messages[2].senderId # hA.userId
        /\ lastSent.message.type = "chat_message"
        /\ lastSent.message.data.message = messages[2]
        /\ lastSent.sessionId = messages[2].sessionId
        /\ lastSent.to # {}

\* C29: a typing frame (agent_typing, customer_typing) is ephemeral: it leaves
\* the Store (users, customers, sessions, messages) and the bindings of all
\* connections as they were, and no handler is left behind that would write.
C29_TypingIsEphemeral ==
    [][\A c \in Pool, t \in TypingTypes, s \in FrameSessionIds, i \in FrameIdentities :
          WsTyping(c, t, s, i)
          => /\ isOnline' = isOnline
             /\ customers' = customers
             /\ chatSessions' = chatSessions
             /\ messages' = messages
             /\ connectedClients' = connectedClients
             /\ handlers' = handlers]_vars

\* a typing frame was forwarded to a connection of its session while the
\* Store holds a chat message of that session: only that message
C29_Witness ==
    /\ lastSent.message.type \in TypingTypes
    /\ lastSent.to # {}
    /\ Len(messages) = 1
    /\ messages[1].sessionId = lastSent.sessionId
    /\ handlers = EmptyBag
    /\ \E c \in BoundTo(lastSent.sessionId) : c \notin lastSent.to

\* the socket events that look a session up first
SocketLookupOps == {"session_transfer", "session_ended"}

\* C30: a session_transfer or session_ended frame naming a session code under
\* which no session is stored changes nothing in the Store, at its arrival
\* and after its lookup, and nothing is sent for it to any connection, those
\* bound to that code included.
C30_UnknownSessionIsIgnored ==
    [][/\ \A h \in BagToSet(handlers') \ InFlight :
            (h.op \in SocketLookupOps /\ h.pc = "gotSession" /\ ~h.failed)
            => /\ h.session = getChatSessionBySessionId(h.sessionId)
               /\ UNCHANGED storeVars
               /\ lastSent' = lastSent
       /\ \A h \in InFlight :
            (/\ Resumed(h) /\ h.op \in SocketLookupOps /\ h.pc = "gotSession"
             /\ ~h.failed /\ h.session = 0)
            => /\ UNCHANGED storeVars
               /\ lastSent' = lastSent
               /\ handlers' = Retire(h)
      ]_vars

\* a connection is bound to a code under which no session is stored, a frame
\* that calls the Store has come and gone, and the Store is as seeded and the
\* last thing sent is still the status of the join
C30_Witness ==
    /\ chatSessions = <<>>
    /\ messages = <<>>
    /\ customers = SeedCustomers
    /\ lastResponse = NoResponse
    /\ handlers = EmptyBag
    /\ budget < MaxOps
    /\ lastSent.message.type = "agent_status"
    /\ BoundTo(lastSent.sessionId) # {}
    /\ lastSent.sessionId \in SessionCodes

\* the transfer handlers that at this step push their record and have the
\* Store take the update of session i
Committing(i) ==
    {h \in InFlight :
        /\ h.op \in TransferOps /\ h.session = i /\ ~h.failed /\ Resumed(h)
        /\ \/ h.op = "session_transfer" /\ h.pc = "gotSession"
           \/ h.op = "http_transfer" /\ h.pc = "gotUser" /\ h.ref # 0}

\* C31: no transfer is lost: in every step a session's transferHistory grows
\* by exactly one record for the transfer request that commits in it and by
\* none otherwise, whatever other socket and HTTP requests are in flight, and
\* a request that then completes finds its record in the history; so after n
\* successful requests the history has n records, one per request.
C31_NoTransferLost ==
    [][/\ Len(chatSessions') >= Len(chatSessions)
       /\ \A i \in Indexes(chatSessions) :
            /\ Cardinality(Committing(i)) <= 1
            /\ Len(chatSessions'[i].transferHistory)
                 = Len(chatSessions[i].transferHistory) + Cardinality(Committing(i))
       /\ \A h \in InFlight :
            (/\ h.op \in TransferOps /\ ~h.failed /\ Resumed(h)
             /\ h.pc \in {"updated", "messageCreated"})
            => \E k \in Indexes(chatSessions[h.session].transferHistory) :
                 chatSessions[h.session].transferHistory[k]
                   = TransferRecord(h.agentId, h.data)
      ]_vars

\* a session transferred by a socket frame and by an HTTP request that both
\* read it before either wrote: both records are there
C31_Witness ==
    /\ handlers = EmptyBag
    /\ Len(chatSessions) = 1
    /\ Len(chatSessions[1].transferHistory) = 2
    /\ chatSessions[1].transferHistory[1].fromAgent
         = chatSessions[1].transferHistory[2].fromAgent
    /\ Cardinality({k \in Indexes(messages) : messages[k].senderType = "system"}) = 1

\* C32: in every reachable state, a session whose transferHistory is not
\* empty has as its agent the toAgent of the history's last record.
C32_AgentIsLastToAgent ==
    \A i \in Indexes(chatSessions) :
        LET history == chatSessions[i].transferHistory
        IN history # <<>> => chatSessions[i].agentId = history[Len(history)].toAgent

\* a session seen between the update of its second transfer and that
\* transfer's broadcast or answer, the two transfers naming different agents
C32_Witness ==
    \E h \in InFlight :
        /\ h.op \in TransferOps /\ h.pc = "updated" /\ ~h.failed
        /\ LET history == chatSessions[h.session].transferHistory
           IN /\ Len(history) = 2
              /\ history[1].toAgent # history[2].toAgent
              /\ history[2] = TransferRecord(h.agentId, h.data)
              /\ chatSessions[h.session].agentId = h.data.newAgentId

\* C33: when a POST /api/chat/transfer is answered with an error (404 or
\* 500), the session it named is as the request found it: its agent is the
\* one the request read and the request's record is not in its history.
C33_FailedTransferLeavesSession ==
    [][\A h \in InFlight :
          (/\ h.op = "http_transfer" /\ Resumed(h) /\ h.session # 0
           /\ lastResponse' # lastResponse
           /\ lastResponse'.op = "http_transfer"
           /\ lastResponse'.status \in {404, 500})
          => /\ chatSessions'[h.session].agentId = h.agentId
             /\ \A k \in Indexes(chatSessions'[h.session].transferHistory) :
                  chatSessions'[h.session].transferHistory[k]
                    # TransferRecord(h.agentId, h.data)]_vars

\* C34: a POST /api/chat/start that fails leaves the Store unchanged: while
\* no user of role agent is online every start is answered 503, so once all
\* requests are answered the Store holds no session and only the seeded
\* customers.
C34_FailedStartLeavesStore ==
    (/\ \A u \in UserIds : UserRole[u] = "agent" => ~isOnline[u]
     /\ handlers = EmptyBag)
    => /\ chatSessions = <<>>
       /\ customers = SeedCustomers

\* C35: the senderId and senderType stored with a chat message are the
\* userId and userType that the sending connection was bound to by its
\* join_session, whatever identity the chat_message frame states.
C35_SenderIsTheBoundIdentity ==
    [][\A c \in DOMAIN connectedClients, s \in FrameSessionIds,
          i \in FrameIdentities, d \in ChatData :
          (WsChatMessage(c, s, i, d) /\ Len(messages') = Len(messages) + 1)
          => /\ messages'[Len(messages')].senderId = connectedClients[c].userId
             /\ messages'[Len(messages')].senderType = connectedClients[c].userType]_vars

C37_ReconnectsAreBounded ==
    [][/\ (reconnectTimeoutRef' /\ ~reconnectTimeoutRef)
            => /\ socket = "CLOSING" /\ socket' = "NONE"
               /\ closeCode # 1000
               /\ reconnectAttempts < maxReconnectAttempts
       /\ (socket' = "OPEN" /\ socket # "OPEN") => reconnectAttempts' = 0
       /\ reconnectAttempts' # reconnectAttempts
            => \/ socket' = "OPEN" /\ reconnectAttempts' = 0
               \/ /\ reconnectAttempts' = reconnectAttempts + 1
                  /\ reconnectTimeoutRef /\ ~reconnectTimeoutRef'
                  /\ socket = "NONE" /\ socket' = "CONNECTING"
       /\ reconnectAttempts' <= maxReconnectAttempts
       /\ (/\ reconnectAttempts = maxReconnectAttempts
           /\ socket = "NONE" /\ ~reconnectTimeoutRef)
            => socket' = "NONE" /\ ~reconnectTimeoutRef'
      ]_vars

\* the hook has given up: five attempts after the last open, all failed
C37_Witness ==
    /\ mounted = "yes"
    /\ peer # NoClient
    /\ reconnectAttempts = maxReconnectAttempts
    /\ socket = "NONE"
    /\ ~reconnectTimeoutRef
    /\ ~isConnected

\* C38: once disconnect() has run, the hook opens no new connection: the
\* call leaves no timer pending, and no close event that arrives afterwards
\* schedules a reconnect or starts a connection.
C38_NoConnectionAfterDisconnect ==
    [][/\ mounted' = "gone" => (reconnectTimeoutRef' => mounted = "gone")
       /\ mounted = "gone"
            => /\ ~(reconnectTimeoutRef' /\ ~reconnectTimeoutRef)
               /\ ~(socket' = "CONNECTING" /\ socket # "CONNECTING")
      ]_vars

\* C39: whenever the hook's connection is open, the component has a session
\* code and its join effect has run, a join_session for that code was sent on
\* this very connection (the first one or one made by a reconnect), and the
\* server has bound the connection to the session or is about to, on
\* handling that frame.
C39_JoinsOnEveryOpen ==
    (/\ mounted = "yes" /\ socket = "OPEN"
     /\ chatSessionId # Undefined /\ ~effectDue)
        => /\ joinSent = peer
           /\ IsOpen(peer)
           /\ \/ /\ connectedClients[peer].sessionId = chatSessionId
                 /\ peer \in BoundTo(chatSessionId)
              \/ ENABLED ServerJoins

\* the connection that was bound to the component's session has ended, and
\* the socket a reconnect made has sent its join and is bound to it again
C39_Witness ==
    /\ mounted = "yes" /\ socket = "OPEN" /\ ~effectDue
    /\ chatSessionId # Undefined
    /\ reconnectAttempts = 0
    /\ peer > 1
    /\ joinSent = peer
    /\ IsOpen(peer)
    /\ connectedClients[peer].sessionId = chatSessionId
    /\ \E c \in DOMAIN connectedClients :
          /\ c < peer
          /\ connectedClients[c].sessionId = chatSessionId
          /\ readyState[c] # "OPEN"

====
